---- MODULE Spec2Model ----
(***************************************************************************)
(* The download engine of main.py: download_all_files gathers one          *)
(* download_file_async task per (filename, date) pair behind an            *)
(* asyncio.Semaphore(2); every task runs the retry loop of lines 124-178.  *)
(* Durations are in tenths of a second (0.1s == 1).                        *)
(* A task's step runs from one await to the next; session.get and          *)
(* response.read are one HTTP wait, and the file write, which has no       *)
(* await, belongs to the step that receives the 200.  When a task returns, *)
(* its frame (attempt, delay, slept, gets) is dropped; what it returned,   *)
(* the line it printed and its last response stay.                         *)
(***************************************************************************)
EXTENDS Integers, Sequences, FiniteSets, TLC

\* ---- bounds ----
NumRequests == 3

\* ---- program constants (tenths of a second for durations) ----
max_retries == 3
base_delay == 10
PaceDelay == 1
DefaultRetryAfter == 50
SemaphoreSlots == 2
ConnectorLimit == 3

Requests == 1..NumRequests

None == <<>>

\* the filename of request i is either a name unique to its date or None
\* (get_filename returns None for combinations it does not know)
Filename(i) == <<"csv", i>>

\* Retry-After header values the server may send with a 429
Absent == "absent"
Headers == {Absent, "2", "soon"}

\* the strings float() accepts; on any other it raises ValueError
IsNumber(s) == s \in {"2", "5"}

\* float(s), in tenths of a second
Float(s) ==
    CASE s = "2" -> 20
      [] s = "5" -> 50

\* response.headers.get('Retry-After', '5')
HeaderGet(h) == IF h = Absent THEN "5" ELSE h

\* statuses other than 200 and 429
OtherStatuses == {"404", "500"}

\* the line printed for such a status
StatusLine(s) == IF s = "404" THEN "HTTP 404" ELSE "HTTP 500"

\* Backoff with the exponent one too high
Backoff_FromBase(k) == base_delay * (2 ^ k)

\* Backoff growing linearly
Backoff_Linear(k) == base_delay * k

\* delay = base_delay * (2 ** (attempt - 1))
Backoff(k) == base_delay * (2 ^ (k - 1))

\* LoopDelay without the pacing delay of the first attempt
LoopDelay_NoPace(k) == IF k > 0 THEN Backoff(k) ELSE 0

\* the sleep that opens iteration k of the loop: backoff on a retry, the
\* pacing delay on the first attempt
LoopDelay(k) == IF k > 0 THEN Backoff(k) ELSE PaceDelay

\* CanRetry with <= for <
CanRetry_Inclusive(k) == k <= max_retries

\* attempt < max_retries
CanRetry(k) == k < max_retries

\* CountTrue counting every truthy result (if r), captured exceptions included
CountTrue_Truthy(rs) == Cardinality({i \in DOMAIN rs : rs[i] # "False"})

\* sum(1 for r in results if r is True)
CountTrue(rs) == Cardinality({i \in DOMAIN rs : rs[i] = "True"})

\* CountFailed counting the False results only
CountFailed_OnlyFalse(rs) == Cardinality({i \in DOMAIN rs : rs[i] = "False"})

\* len(results) - successful
CountFailed(rs) == Len(rs) - CountTrue(rs)

VARIABLES
    urls,       \* the input list: urls[i] is the filename of request i, or None
    dir,        \* save_dir: dir[i] is the state of the file of request i
    pc,         \* where task i is suspended
    attempt,    \* the loop variable of task i
    delay,      \* the duration of the sleep task i is in (0 when not sleeping)
    slept,      \* the sleeps task i completed since its last response
    status,     \* how the latest attempt of task i ended: an HTTP status or
                \* the exception raised ("none" before the first response)
    retry_after,\* the Retry-After header of that response when it was a 429
    gets,       \* the GETs task i has issued so far (dropped with its frame)
    writes,     \* the times task i opened its file for writing
    ret,        \* what task i returned ("True", "False") or "raised"; "none" before
    reason,     \* the terminal line task i printed
    sem,        \* semaphore._value
    waiters,    \* semaphore._waiters, first in first out
    conn,       \* conn[i]: the connections of the connector task i holds
    phase,      \* "running" until the summary is computed
    results,    \* the list gather returned
    successful, \* the counts of the summary
    failed

vars == <<urls, dir, pc, attempt, delay, slept, status, retry_after, gets,
          writes, ret, reason, sem, waiters, conn, phase, results, successful,
          failed>>

\* the inputs: every name present, every name None (horse racing without a
\* country), or a list with a single None entry
Inputs ==
    {[i \in Requests |-> Filename(i)], [i \in Requests |-> None]}
    \cup {[i \in Requests |-> IF i = j THEN None ELSE Filename(i)] : j \in {2}}

\* the directory before the run: an earlier run left the files of the odd
\* requests ("old"), the others do not exist yet
InitialFile(i) == IF i % 2 = 1 THEN "old" ELSE "absent"

Init ==
    /\ urls \in Inputs
    /\ dir = [i \in Requests |-> InitialFile(i)]
    /\ pc = [i \in Requests |-> "new"]
    /\ attempt = [i \in Requests |-> 0]
    /\ delay = [i \in Requests |-> 0]
    /\ slept = [i \in Requests |-> <<>>]
    /\ status = [i \in Requests |-> "none"]
    /\ retry_after = [i \in Requests |-> "none"]
    /\ gets = [i \in Requests |-> 0]
    /\ writes = [i \in Requests |-> 0]
    /\ ret = [i \in Requests |-> "none"]
    /\ reason = [i \in Requests |-> "none"]
    /\ sem = SemaphoreSlots
    /\ waiters = <<>>
    /\ conn = [i \in Requests |-> 0]
    /\ phase = "running"
    /\ results = <<>>
    /\ successful = 0
    /\ failed = 0

\* the states of a task that holds a download slot
Inside == {"pace", "backoff", "get", "ratewait"}

InsideNow == {i \in Requests : pc[i] \in Inside}

\* the connections of the connector in use
RECURSIVE ConnsUpTo(_)
ConnsUpTo(n) == IF n = 0 THEN 0 ELSE conn[n] + ConnsUpTo(n - 1)

OpenConns == ConnsUpTo(NumRequests)

\* session.get(url) takes a connection of the connector
AcquireConn(i) == [conn EXCEPT ![i] = @ + 1]

\* ReleaseConn that keeps the connection
ReleaseConn_Leak(i) == conn

\* leaving the async with session.get(url) block gives the connection back
ReleaseConn(i) == [conn EXCEPT ![i] = IF @ > 0 THEN @ - 1 ELSE 0]

\* every task has run its first step: gather schedules the tasks in order and
\* the loop runs each to its first suspension before any timer fires
Launched == \A j \in Requests : pc[j] # "new"

\* Acquire that takes no slot
Acquire_NoDecrement == sem

\* semaphore.acquire() on entering the async with block
Acquire == sem - 1

\* Release that does not give the slot back
Release_Leak == sem

\* semaphore.release() on leaving the async with block
Release == sem + 1

\* Return whose failure also ends every other task
Return_CancelsSiblings(i, st, val, why) ==
    /\ pc' = [j \in Requests |-> IF j = i \/ val = "False" THEN "done" ELSE pc[j]]
    /\ ret' = [ret EXCEPT ![i] = val]
    /\ reason' = [reason EXCEPT ![i] = why]
    /\ attempt' = [attempt EXCEPT ![i] = 0]
    /\ delay' = [delay EXCEPT ![i] = 0]
    /\ slept' = [slept EXCEPT ![i] = <<>>]
    /\ status' = [status EXCEPT ![i] = st]
    /\ gets' = [gets EXCEPT ![i] = 0]
    /\ conn' = ReleaseConn(i)
    /\ sem' = Release

\* the task leaves download_file_async: its frame is dropped, the slot freed
Return(i, st, val, why) ==
    /\ pc' = [pc EXCEPT ![i] = "done"]
    /\ ret' = [ret EXCEPT ![i] = val]
    /\ reason' = [reason EXCEPT ![i] = why]
    /\ attempt' = [attempt EXCEPT ![i] = 0]
    /\ delay' = [delay EXCEPT ![i] = 0]
    /\ slept' = [slept EXCEPT ![i] = <<>>]
    /\ status' = [status EXCEPT ![i] = st]
    /\ gets' = [gets EXCEPT ![i] = 0]
    /\ conn' = ReleaseConn(i)
    /\ sem' = Release

\* the body of the async with block up to the first sleep, with the slot taken
\* as the step begins: Path(save_dir) / None raises TypeError
\* outside the try, which releases the slot and escapes to gather
Enter(i) ==
    IF urls[i] = None
    THEN /\ pc' = [pc EXCEPT ![i] = "done"]
         /\ ret' = [ret EXCEPT ![i] = "raised"]
         /\ reason' = [reason EXCEPT ![i] = "none"]
         /\ sem' = sem
         /\ UNCHANGED <<attempt, delay, slept, status, gets, conn>>
    ELSE /\ pc' = [pc EXCEPT ![i] = "pace"]
         /\ attempt' = [attempt EXCEPT ![i] = 0]
         /\ delay' = [delay EXCEPT ![i] = LoopDelay(0)]
         /\ sem' = Acquire
         /\ UNCHANGED <<slept, status, gets, ret, reason, conn>>

\* the first step of task i: async with semaphore
Start(i) ==
    /\ phase = "running"
    /\ pc[i] = "new"
    /\ \A j \in Requests : j < i => pc[j] # "new"
    /\ IF sem > 0 /\ waiters = <<>>
       THEN Enter(i) /\ UNCHANGED waiters
       ELSE /\ pc' = [pc EXCEPT ![i] = "gate"]
            /\ waiters' = Append(waiters, i)
            /\ UNCHANGED <<attempt, delay, slept, status, gets, ret, reason, sem,
                           conn>>
    /\ UNCHANGED <<urls, retry_after, dir, writes, phase, results, successful,
                   failed>>

\* a released slot wakes the first waiter
Admit(i) ==
    /\ Launched
    /\ pc[i] = "gate"
    /\ waiters # <<>> /\ Head(waiters) = i
    /\ sem > 0
    /\ waiters' = Tail(waiters)
    /\ Enter(i)
    /\ UNCHANGED <<urls, retry_after, dir, writes, phase, results, successful,
                   failed>>

\* the pacing or backoff sleep ends and session.get(url) is issued
IssueGet(i) ==
    /\ Launched
    /\ pc[i] \in {"pace", "backoff"}
    /\ slept' = [slept EXCEPT ![i] = Append(@, delay[i])]
    /\ delay' = [delay EXCEPT ![i] = 0]
    /\ OpenConns < ConnectorLimit
    /\ conn' = AcquireConn(i)
    /\ gets' = [gets EXCEPT ![i] = @ + 1]
    /\ pc' = [pc EXCEPT ![i] = "get"]
    /\ UNCHANGED <<urls, retry_after, dir, attempt, status, writes, ret, reason, sem,
                   waiters, phase, results, successful, failed>>

\* NextAttempt that gives the slot back for the time of the backoff sleep
NextAttempt_ReleasesSlot(i, st, sofar) ==
    /\ attempt' = [attempt EXCEPT ![i] = @ + 1]
    /\ delay' = [delay EXCEPT ![i] = LoopDelay(attempt[i] + 1)]
    /\ slept' = [slept EXCEPT ![i] = sofar]
    /\ status' = [status EXCEPT ![i] = st]
    /\ pc' = [pc EXCEPT ![i] = "backoff"]
    /\ conn' = ReleaseConn(i)
    /\ sem' = sem + 1
    /\ UNCHANGED <<gets, ret, reason>>

\* continue: the next iteration starts with the backoff sleep
NextAttempt(i, st, sofar) ==
    /\ attempt' = [attempt EXCEPT ![i] = @ + 1]
    /\ delay' = [delay EXCEPT ![i] = LoopDelay(attempt[i] + 1)]
    /\ slept' = [slept EXCEPT ![i] = sofar]
    /\ status' = [status EXCEPT ![i] = st]
    /\ pc' = [pc EXCEPT ![i] = "backoff"]
    /\ conn' = ReleaseConn(i)
    /\ UNCHANGED <<gets, ret, reason, sem>>

\* a retryable exception: continue while attempts remain, else return False
RetryOrFail(i, st, why) ==
    IF CanRetry(attempt[i])
    THEN NextAttempt(i, st, <<>>)
    ELSE Return(i, st, "False", why)

\* FileAfter with the file opened in append mode ('ab')
FileAfter_Append(old, w) ==
    CASE w = "written" -> IF old = "absent" THEN "body" ELSE "appended"
      [] w = "open fails" -> old
      [] w = "write fails" -> "partial"

\* open(save_path, 'wb') and file.write(content): the file after the outcome w
FileAfter(old, w) ==
    CASE w = "written" -> "body"
      [] w = "open fails" -> old
      [] w = "write fails" -> "partial"

WriteOutcomes == {"written", "open fails", "write fails"}

\* On200 whose IOError branch retries like the network errors
On200_RetriesIOError(i) ==
    /\ Launched
    /\ pc[i] = "get"
    /\ \E w \in WriteOutcomes :
        /\ dir' = [dir EXCEPT ![i] = FileAfter(@, w)]
        /\ writes' = [writes EXCEPT ![i] = IF w = "open fails" THEN @ ELSE @ + 1]
        /\ IF w = "written"
           THEN Return(i, "200", "True", "ok")
           ELSE RetryOrFail(i, "200", "File error")
    /\ retry_after' = [retry_after EXCEPT ![i] = "none"]
    /\ UNCHANGED <<urls, waiters, phase, results, successful, failed>>

\* status 200: read the body, write the file, return True; IOError returns False
On200(i) ==
    /\ Launched
    /\ pc[i] = "get"
    /\ \E w \in WriteOutcomes :
        /\ dir' = [dir EXCEPT ![i] = FileAfter(@, w)]
        /\ writes' = [writes EXCEPT ![i] = IF w = "open fails" THEN @ ELSE @ + 1]
        /\ IF w = "written"
           THEN Return(i, "200", "True", "ok")
           ELSE Return(i, "200", "False", "File error")
    /\ retry_after' = [retry_after EXCEPT ![i] = "none"]
    /\ UNCHANGED <<urls, waiters, phase, results, successful, failed>>

\* status 429: sleep Retry-After while attempts remain, else return False
On429(i) ==
    /\ Launched
    /\ pc[i] = "get"
    /\ \E h \in Headers :
        /\ retry_after' = [retry_after EXCEPT ![i] = h]
        /\ IF CanRetry(attempt[i])
           THEN IF ~IsNumber(HeaderGet(h))
                THEN Return(i, "429", "False", "Unexpected error")
                ELSE /\ pc' = [pc EXCEPT ![i] = "ratewait"]
                     /\ delay' = [delay EXCEPT ![i] = Float(HeaderGet(h))]
                     /\ slept' = [slept EXCEPT ![i] = <<>>]
                     /\ status' = [status EXCEPT ![i] = "429"]
                     /\ UNCHANGED <<attempt, gets, ret, reason, sem, conn>>
           ELSE Return(i, "429", "False", "Rate limited")
    /\ UNCHANGED <<urls, dir, writes, waiters, phase, results, successful, failed>>

\* the Retry-After sleep ends: continue
RateWaitDone(i) ==
    /\ Launched
    /\ pc[i] = "ratewait"
    /\ NextAttempt(i, status[i], Append(slept[i], delay[i]))
    /\ UNCHANGED <<urls, retry_after, dir, writes, waiters, phase, results, successful, failed>>

\* OnOtherStatus retrying like the network errors
OnOtherStatus_Retries(i) ==
    /\ Launched
    /\ pc[i] = "get"
    /\ \E s \in OtherStatuses : RetryOrFail(i, s, StatusLine(s))
    /\ retry_after' = [retry_after EXCEPT ![i] = "none"]
    /\ UNCHANGED <<urls, dir, writes, waiters, phase, results, successful, failed>>

\* any other status: return False
OnOtherStatus(i) ==
    /\ Launched
    /\ pc[i] = "get"
    /\ \E s \in OtherStatuses : Return(i, s, "False", StatusLine(s))
    /\ retry_after' = [retry_after EXCEPT ![i] = "none"]
    /\ UNCHANGED <<urls, dir, writes, waiters, phase, results, successful, failed>>

\* asyncio.TimeoutError from the request or the body read
OnTimeout(i) ==
    /\ Launched
    /\ pc[i] = "get"
    /\ RetryOrFail(i, "TimeoutError", "Timeout")
    /\ retry_after' = [retry_after EXCEPT ![i] = "none"]
    /\ UNCHANGED <<urls, dir, writes, waiters, phase, results, successful, failed>>

\* aiohttp.ClientError from the request or the body read
OnClientError(i) ==
    /\ Launched
    /\ pc[i] = "get"
    /\ RetryOrFail(i, "ClientError", "Network error")
    /\ retry_after' = [retry_after EXCEPT ![i] = "none"]
    /\ UNCHANGED <<urls, dir, writes, waiters, phase, results, successful, failed>>

\* any other Exception inside the try
OnException(i) ==
    /\ Launched
    /\ pc[i] = "get"
    /\ Return(i, "Exception", "False", "Unexpected error")
    /\ retry_after' = [retry_after EXCEPT ![i] = "none"]
    /\ UNCHANGED <<urls, dir, writes, waiters, phase, results, successful, failed>>

\* Summary that does not wait for every task
Summary_Early ==
    /\ phase = "running"
    /\ \E i \in Requests : pc[i] = "done"
    /\ results' = [i \in Requests |-> IF ret[i] = "raised" THEN "TypeError" ELSE ret[i]]
    /\ successful' = CountTrue(results')
    /\ failed' = CountFailed(results')
    /\ phase' = "summary"
    /\ UNCHANGED <<urls, retry_after, dir, pc, attempt, delay, slept, status, gets,
                   writes, ret, reason, sem, waiters, conn>>

\* gather returns once every task is done; the summary is counted
Summary ==
    /\ phase = "running"
    /\ \A i \in Requests : pc[i] = "done"
    /\ results' = [i \in Requests |-> IF ret[i] = "raised" THEN "TypeError" ELSE ret[i]]
    /\ successful' = CountTrue(results')
    /\ failed' = CountFailed(results')
    /\ phase' = "summary"
    /\ UNCHANGED <<urls, retry_after, dir, pc, attempt, delay, slept, status, gets,
                   writes, ret, reason, sem, waiters, conn>>

\* the run is cancelled (the interrupt cancels main, gather cancels every
\* task): CancelledError is raised at the await each unfinished task is
\* suspended in, no except clause of the loop catches it, the async with
\* blocks give back the connection and the slot, tasks parked in acquire()
\* leave the queue; gather raises and no summary is printed
Cancel ==
    /\ phase = "running"
    /\ Launched
    /\ \E i \in Requests : pc[i] # "done"
    /\ pc' = [i \in Requests |-> "done"]
    /\ ret' = [i \in Requests |-> IF pc[i] = "done" THEN ret[i] ELSE "cancelled"]
    /\ attempt' = [i \in Requests |-> 0]
    /\ delay' = [i \in Requests |-> 0]
    /\ slept' = [i \in Requests |-> <<>>]
    /\ gets' = [i \in Requests |-> 0]
    /\ sem' = sem + Cardinality(InsideNow)
    /\ waiters' = <<>>
    /\ conn' = [i \in Requests |-> 0]
    /\ phase' = "cancelled"
    /\ UNCHANGED <<urls, dir, status, retry_after, writes, reason, results,
                   successful, failed>>

\* the steps of a run that is not interrupted
Run ==
    \/ \E i \in Requests : Start(i)
    \/ \E i \in Requests : Admit(i)
    \/ \E i \in Requests : IssueGet(i)
    \/ \E i \in Requests : On200(i)
    \/ \E i \in Requests : On429(i)
    \/ \E i \in Requests : RateWaitDone(i)
    \/ \E i \in Requests : OnOtherStatus(i)
    \/ \E i \in Requests : OnTimeout(i)
    \/ \E i \in Requests : OnClientError(i)
    \/ \E i \in Requests : OnException(i)
    \/ Summary

Next == Run \/ Cancel

Spec == Init /\ [][Next]_vars

\* an uninterrupted run on a loop that keeps running what is ready: every
\* HTTP round trip ends (the 60s total timeout bounds it) and every sleep ends
FairSpec == Init /\ [][Run]_vars /\ WF_vars(Run)

\* ---------------------------------------------------------------------
\* C1: once the summary is counted, gather has returned exactly one result
\* per request (that request's own True, False or exception), and
\* successful + failed is the number of requests.
C1_OneResultPerRequest ==
    phase = "summary" =>
        /\ DOMAIN results = Requests
        /\ \A i \in Requests :
              /\ ret[i] # "none"
              /\ results[i] = (IF ret[i] = "raised" THEN "TypeError" ELSE ret[i])
        /\ successful + failed = NumRequests

\* a summary over a success, a failure and an escaped exception
C1_Witness ==
    /\ phase = "summary"
    /\ \E i, j, k \in Requests :
          ret[i] = "True" /\ ret[j] = "False" /\ ret[k] = "raised"

\* C2: at most 2 requests are inside the gated section at any time, and every
\* unresolved request outside it has issued no GET.
C2_AtMostTwoInside ==
    /\ Cardinality(InsideNow) <= SemaphoreSlots
    /\ \A i \in Requests : pc[i] \in {"new", "gate"} => gets[i] = 0

\* two requests inside (one in a Retry-After sleep, one in a GET), a third
\* waiting at the gate
C2_Witness ==
    \E i, j, k \in Requests :
        /\ pc[i] = "ratewait" /\ pc[j] = "get" /\ pc[k] = "gate"
        /\ Cardinality(InsideNow) = SemaphoreSlots

\* the sum of a sequence of durations
RECURSIVE SumSeq(_)
SumSeq(q) == IF q = <<>> THEN 0 ELSE Head(q) + SumSeq(Tail(q))

\* task i takes a step out of its HTTP wait: the response of the attempt
\* arrives in this step and status'[i] says what it was
Responds(i) == pc[i] = "get" /\ pc'[i] # "get" /\ phase' = "running"

\* attempt 2 of request i has just been issued, attempt 1 having been answered
\* 429 with Retry-After: 2
C3_Case(i) ==
    /\ pc[i] = "get" /\ attempt[i] = 1
    /\ status[i] = "429" /\ retry_after[i] = "2"

C4_DefaultWaitThenRetry ==
    [][\A i \in Requests :
          (/\ Responds(i) /\ CanRetry(attempt[i])
           /\ status'[i] = "429" /\ ~IsNumber(retry_after'[i])) =>
              (pc'[i] = "ratewait" /\ delay'[i] = DefaultRetryAfter)]_vars

\* C5: a request issues at most 1 + max_retries = 4 GETs; every retry,
\* whatever caused it, advances the one attempt counter the GET count follows;
\* any response to the 4th GET resolves the request, a retryable failure as
\* Failure; and a resolved request issues no GET.
C5_AtMostFourGets ==
    [][\A i \in Requests :
          /\ gets[i] <= max_retries + 1 /\ gets'[i] <= max_retries + 1
          /\ pc[i] \in {"get", "ratewait"} => gets[i] = attempt[i] + 1
          /\ pc[i] = "backoff" => gets[i] = attempt[i]
          /\ (Responds(i) /\ gets[i] = max_retries + 1) =>
                /\ pc'[i] = "done"
                /\ status'[i] \in {"429", "TimeoutError", "ClientError"} =>
                      ret'[i] = "False"
          /\ pc[i] = "done" => (pc'[i] = "done" /\ gets'[i] = gets[i])]_vars

\* a request failed by a network error on its last attempt
C5_Witness ==
    \E i \in Requests :
        pc[i] = "done" /\ ret[i] = "False" /\ reason[i] = "Network error"

\* C6: a request that ends in Failure leaves its destination file as it was
\* before the run; only Success puts the full body there.
C6_FailureLeavesDirUnchanged ==
    \A i \in Requests :
        /\ ret[i] \in {"False", "raised"} => dir[i] = InitialFile(i)
        /\ dir[i] # InitialFile(i) => (ret[i] = "True" /\ dir[i] = "body")

\* the delays before attempts 2, 3 and 4 of a request that keeps timing out
TimeoutSpacing == <<10, 20, 40>>

\* C7: only the pacing delay precedes attempt 1; the attempt issued after a
\* timeout on attempt k is preceded by exactly 1s, 2s, 4s for k = 1, 2, 3;
\* a timeout on the 4th attempt resolves the request to Failure(Timeout)
\* after exactly 4 GETs.
C7_TimeoutBackoff ==
    [][\A i \in Requests :
          /\ (pc[i] = "get" /\ attempt[i] = 0) =>
                (slept[i] = <<PaceDelay>> /\ gets[i] = 1)
          /\ (pc[i] = "get" /\ attempt[i] >= 1 /\ status[i] = "TimeoutError") =>
                /\ slept[i] = <<TimeoutSpacing[attempt[i]]>>
                /\ gets[i] = attempt[i] + 1
          /\ (Responds(i) /\ status'[i] = "TimeoutError") =>
                IF attempt[i] < 3
                THEN /\ pc'[i] = "backoff"
                     /\ attempt'[i] = attempt[i] + 1
                     /\ delay'[i] = TimeoutSpacing[attempt'[i]]
                ELSE /\ pc'[i] = "done" /\ ret'[i] = "False"
                     /\ reason'[i] = "Timeout"
                     /\ gets[i] = 4]_vars

\* a request that timed out on its last attempt
C7_Witness ==
    \E i \in Requests :
        pc[i] = "done" /\ ret[i] = "False" /\ reason[i] = "Timeout"

\* C8: a status other than 200 and 429 resolves the request to Failure in the
\* step the response arrives, on whichever attempt: no sleep is started, no
\* further GET is issued.
C8_OtherStatusFailsAtOnce ==
    [][\A i \in Requests :
          /\ (Responds(i) /\ status'[i] \in OtherStatuses) =>
                /\ pc'[i] = "done" /\ ret'[i] = "False"
                /\ reason'[i] = StatusLine(status'[i])
                /\ delay'[i] = 0
          /\ (pc[i] = "done" /\ status[i] \in OtherStatuses) =>
                /\ pc'[i] = "done" /\ gets'[i] = gets[i]
                /\ delay'[i] = 0 /\ status'[i] = status[i]]_vars

\* a request failed by a 500 while another is still in flight
C8_Witness ==
    \E i, j \in Requests :
        /\ pc[i] = "done" /\ ret[i] = "False" /\ reason[i] = "HTTP 500"
        /\ pc[j] = "get"

C11_EveryRequestResolves ==
    <>(phase = "summary" /\ \A i \in Requests : pc[i] = "done" /\ ret[i] # "none")

\* the summary of a run in which every request went through the loop, the
\* later ones after waiting at the gate
C11_Witness ==
    /\ phase = "summary"
    /\ \A i \in Requests : ret[i] \in {"True", "False"}
    /\ sem = SemaphoreSlots

\* everything the model holds about request j
TaskFields(j) ==
    <<pc[j], attempt[j], delay[j], slept[j], status[j], retry_after[j], gets[j],
      writes[j], ret[j], reason[j], dir[j]>>

\* C12: a step of request i in a run that is not cancelled (a response, a
\* retry, a failure, an escaping exception) changes nothing of any other
\* request j: not where it is, its attempt and GET counts, its result or its
\* file; it leaves j in the queue of the gate and leaves j its connection.
C12_SiblingsUntouched ==
    [][\A i, j \in Requests :
          (i # j /\ pc'[i] # pc[i] /\ phase' = "running") =>
              /\ TaskFields(j)' = TaskFields(j)
              /\ (\E n \in DOMAIN waiters : waiters[n] = j) =>
                    (\E n \in DOMAIN waiters' : waiters'[n] = j)
              /\ conn'[j] = conn[j]]_vars

\* one request raised, one failed, and a third is in its HTTP wait
C12_Witness ==
    \E i, j, k \in Requests :
        /\ ret[i] = "raised" /\ ret[j] = "False" /\ reason[j] # "none"
        /\ pc[k] = "get" /\ phase = "running"

\* C13: a request whose filename is None is skipped with a logged outcome:
\* once it has left the gate it has issued no GET, written no file, given
\* its slot back and printed its own line.
C13_NullSkippedAndLogged ==
    \A i \in Requests :
        (urls[i] = None /\ pc[i] = "done" /\ ret[i] # "cancelled") =>
            /\ gets[i] = 0 /\ writes[i] = 0 /\ dir[i] = InitialFile(i)
            /\ conn[i] = 0
            /\ reason[i] # "none"

\* C14: the summary is counted only when every request has resolved; a
\* request that returned True or False has printed its terminal line by
\* then; and a request that has printed its terminal line is done: it issues
\* no GET, starts no sleep and writes no file afterwards.
C14_SummaryAfterAllOutcomes ==
    [][\A i \in Requests :
          /\ phase' = "summary" =>
                /\ pc[i] = "done" /\ pc'[i] = "done"
                /\ ret'[i] \in {"True", "False"} => reason'[i] # "none"
          /\ ret[i] \in {"True", "False"} => reason[i] # "none"
          /\ reason[i] # "none" =>
                /\ pc[i] = "done" /\ pc'[i] = "done"
                /\ gets'[i] = gets[i] /\ delay'[i] = 0
                /\ writes'[i] = writes[i] /\ dir'[i] = dir[i]
                /\ conn[i] = 0 /\ conn'[i] = 0]_vars

\* a summary over a success and a request rate limited to the end
C14_Witness ==
    /\ phase = "summary"
    /\ \E i, j \in Requests : reason[i] = "ok" /\ reason[j] = "Rate limited"

\* C15: at most ConnectorLimit = 3 connections are in use at any time; a
\* request holds at most one, and only while it holds a download slot.
C15_ConnectionsBounded ==
    /\ OpenConns <= ConnectorLimit
    /\ \A i \in Requests :
          /\ conn[i] <= 1
          /\ conn[i] > 0 => pc[i] \in Inside

\* two connections in use: one request sleeps on Retry-After inside the
\* async with block of its response, another is in its HTTP wait
C15_Witness ==
    \E i, j \in Requests :
        /\ pc[i] = "ratewait" /\ conn[i] = 1
        /\ pc[j] = "get" /\ conn[j] = 1
        /\ OpenConns = 2

\* C16: after a cancellation of the run no destination file is partial or
\* truncated: every file is as it was before the run or holds a complete
\* response body.
C16_CancelLeavesNoPartialFile ==
    phase = "cancelled" =>
        \A i \in Requests : dir[i] \in {InitialFile(i), "body"}

\* the outcome of the open and write of request i in the finished run
WriteOutcomeOf(i) ==
    IF ret[i] = "True" THEN "written"
    ELSE IF writes[i] > 0 THEN "write fails" ELSE "open fails"

\* the file of request i after a second run over the directory the first run
\* left, with the same responses and the same write outcome
SecondRun(i) ==
    IF status[i] = "200" THEN FileAfter(dir[i], WriteOutcomeOf(i)) ELSE dir[i]

\* C17: a run over a directory that already holds files of the same names
\* succeeds and replaces their content, and a second run with the same
\* responses leaves the directory the first run left.
C17_RerunOverwrites ==
    phase = "summary" =>
        \A i \in Requests :
            /\ ret[i] = "True" => dir[i] = "body"
            /\ SecondRun(i) = dir[i]
            /\ (status[i] # "200" \/ WriteOutcomeOf(i) = "open fails") =>
                    dir[i] = InitialFile(i)

\* a request whose file an earlier run left behind succeeds and replaces it
C17_Witness ==
    /\ phase = "summary"
    /\ \E i \in Requests :
          InitialFile(i) = "old" /\ ret[i] = "True" /\ dir[i] = "body"

\* C18: a 429 resolves a request only on its final attempt (index 3), at once
\* and as Failure(RateLimited); so a request answered 429 every time has
\* issued exactly 4 GETs when it resolves.
C18_RateLimitedOnlyAfterFourGets ==
    [][\A i \in Requests :
          (Responds(i) /\ status'[i] = "429" /\ pc'[i] = "done") =>
              /\ attempt[i] = max_retries
              /\ gets[i] = max_retries + 1
              /\ ret'[i] = "False" /\ reason'[i] = "Rate limited"]_vars

\* C19: the slots held are exactly those of the requests admitted and not yet
\* resolved; a step that keeps a request inside (a retry, the end of a
\* sleep) leaves the semaphore alone; when the run ends no slot is held.
C19_SlotHeldUntilOutcome ==
    [][/\ SemaphoreSlots - sem' = Cardinality({i \in Requests : pc'[i] \in Inside})
       /\ SemaphoreSlots - sem = Cardinality(InsideNow)
       /\ (\E i \in Requests :
              /\ pc[i] \in Inside /\ pc'[i] \in Inside
              /\ pc'[i] # pc[i] \/ attempt'[i] # attempt[i]) => sem' = sem
       /\ phase' \in {"summary", "cancelled"} => sem' = SemaphoreSlots]_vars

\* both slots are held, one of them by a request in the backoff sleep before
\* its second or later attempt, while another request waits at the gate
C19_Witness ==
    \E i, k \in Requests :
        /\ pc[i] = "backoff" /\ attempt[i] >= 1
        /\ pc[k] = "gate"
        /\ sem = 0

\* the requests that received a 200 and whose file holds the full body
Written == {i \in Requests : status[i] = "200" /\ writes[i] = 1 /\ dir[i] = "body"}

\* C20: the successful count is the number of requests that received a 200
\* and completed their file write; every other result, False or a captured
\* exception, is counted as failed.
C20_SuccessfulCountsWrittenFiles ==
    phase = "summary" =>
        /\ successful = Cardinality(Written)
        /\ failed = Cardinality(Requests \ Written)
        /\ \A i \in Requests : results[i] = "True" <=> i \in Written

\* a summary of 1 successful and 2 failed: a written file, a 200 whose write
\* failed, and a captured exception
C20_Witness ==
    /\ phase = "summary"
    /\ successful = 1 /\ failed = 2
    /\ \E i, j, k \in Requests :
          /\ i \in Written
          /\ status[j] = "200" /\ results[j] = "False"
          /\ results[k] = "TypeError"

====
